---- MODULE Spec2Model ----
(***************************************************************************)
(* A model of src/main.py: the ConnectionManager (registry of open         *)
(* websockets plus broadcast history), the FollowingStatus ledger built on *)
(* it, and the coroutines that use them.  The event loop runs one          *)
(* coroutine at a time and switches only at an await, so one action is the *)
(* code a coroutine runs between two awaits; `running` names the coroutine *)
(* that has the loop when an action ends inside such a stretch.            *)
(***************************************************************************)
EXTENDS Integers, Sequences, FiniteSets, TLC

\* ------------------------------------------------------------------ bounds
NumWS == 2
NumTasks == 2
MaxPub == 2
MaxEcho == 1
MaxClose == 1
MaxFrames == 2
MaxScore == 4
MaxCalls == 1
NumLeaveWS == 4

WS == 1..NumWS
Tasks == 1..NumTasks

\* ----------------------------------------------------------- program names
\* The two module-level managers (main.py lines 76-77).
Hubs == {"CLIENTS", "FOLLOWING_STATUS"}

\* The manager the driver coroutines of Spec call.
DriverHubs == {"CLIENTS"}

\* Payloads a client may send: one that int() parses and one it does not.
Data == {"7", "x"}

\* f"You wrote: {data}" (line 97) and f"Client #{client_id} says: {data}"
\* (line 103), kept as the literal pieces and the interpolated values.
YouWrote(data) == <<"You wrote: ", data>>
Says(client_id, data) == <<"Client #", client_id, " says: ", data>>

EchoTexts == {YouWrote(d) : d \in Data}
BroadcastTexts == {Says("a", d) : d \in Data}

\* The client_id path segments of /ws/{client_id} (line 90).
ClientIds == {"a", "b"}

\* int(data) (line 99): the payloads it parses, and their values.
IsInt(data) == data = "7"
IntOf(data) == 7

\* Lines 100, 101 and 106.
Adjusted(client_id, score) == <<"Client #", client_id, " adjusted their score to: ", score>>
FollowingValue(tenths) == <<"Following Value is ", tenths>>
Left(client_id) == <<"Client #", client_id, " left the chat">>

\* What a send on a closed transport raises in the sending coroutine.
SendErrors == {"WebSocketDisconnect", "RuntimeError"}

\* ----------------------------------------------------------------- state
VARIABLES
    active_connections,  \* [Hubs -> Seq(WS)]   ConnectionManager.active_connections
    history,             \* [Hubs -> Seq(text)] ConnectionManager.history
    open,                \* [WS -> BOOLEAN]     the peer has not closed the transport
    accepted,            \* the websockets connect() was called on
    inbox,               \* [WS -> Seq(text)]   the frames written to each websocket
    task,                \* [coroutine -> record] each coroutine's position and locals
    running,             \* the coroutine that holds the event loop, 0 when all are suspended
    _status,             \* FollowingStatus._status: a function from the client ids present to scores
    frames,              \* number of inbound frames the handlers have read
    published,           \* [Hubs -> Seq(text)] the arguments of the broadcast calls, in call order
    replayed,            \* [WS -> Seq(text)]   what connect() replayed into the websocket
    overlap,             \* [WS -> set of text] broadcasts in mid-sweep while the websocket was joining
    echoed               \* Seq(<<websocket, text>>) the personal messages written so far

hubVars == <<active_connections, history>>
wsVars == <<open, accepted, inbox>>
logVars == <<published, replayed, echoed>>
appVars == <<_status, frames>>
vars == <<active_connections, history, open, accepted, inbox, task, running,
          _status, frames, published, replayed, overlap, echoed>>

\* ---------------------------------------------------------------- helpers
Range(s) == {s[i] : i \in DOMAIN s}

Count(x, s) == Cardinality({i \in DOMAIN s : s[i] = x})

\* list.remove(x): delete the first occurrence (x is in the list).
ListRemoveLast(s, x) == SubSeq(s, 1, Len(s) - 1)
ListRemove(s, x) ==
    LET i == CHOOSE k \in DOMAIN s : s[k] = x /\ \A j \in 1..(k - 1) : s[j] # x
    IN  SubSeq(s, 1, i - 1) \o SubSeq(s, i + 1, Len(s))

\* A list iterator that has handed out i items has a next one.
HasNextOffByOne(s, i) == i + 1 < Len(s)
HasNext(s, i) == i < Len(s)

IdleTask ==
    [pc |-> "idle", op |-> "none", hub |-> "CLIENTS", ws |-> 0, msg |-> <<>>,
     idx |-> 0, out |-> "none", tried |-> <<>>, snap |-> <<>>, failed |-> 0,
     kind |-> "driver", cid |-> "", data |-> "", site |-> "", sawFail |-> 0]

\* The coroutine enters a method: the call's own locals start afresh.
Call(tk, op, h, w, m, snap) ==
    [tk EXCEPT !.pc = op, !.op = op, !.hub = h, !.ws = w, !.msg = m, !.idx = 0,
               !.out = "none", !.tried = <<>>, !.snap = snap, !.failed = 0]

\* The call has returned (out = "ok") or raised (out = the exception).
Done(tk, out) == [tk EXCEPT !.pc = "done", !.out = out]

\* The send to websocket c raised exc, which leaves the call.
Raised(tk, c, exc) == Done([tk EXCEPT !.failed = c, !.sawFail = c], exc)

\* The positions at which a coroutine is suspended in an await (or has ended).
AwaitPcs == {"idle", "accept", "replay", "sweep", "sending", "start", "recv", "dead", "closed"}

\* After a step of coroutine t the event loop is free iff t is suspended.
Schedule(t) == running' = IF task'[t].pc \in AwaitPcs THEN 0 ELSE t

Joining(tk, w) == tk.pc \in {"accept", "replay"} /\ tk.ws = w

\* The broadcasts that are in mid-sweep while w is being joined.
TrackOverlap ==
    overlap' = [w \in DOMAIN overlap |->
        IF \E t \in DOMAIN task : Joining(task'[t], w)
        THEN overlap[w] \cup {task'[t].msg : t \in {u \in DOMAIN task : task'[u].pc = "sweep"}}
        ELSE overlap[w]]

\* ------------------------------------------------- ConnectionManager.connect
\* await websocket.accept()
Accept(t, tk, h, w) ==
    /\ w \notin accepted
    /\ accepted' = accepted \cup {w}
    /\ task' = [task EXCEPT ![t] = [Call(tk, "connect", h, w, <<>>, <<>>) EXCEPT !.pc = "accept"]]

\* Resumed after accept() or after a replayed send: the next turn of the
\* loop over self.history, or the append that follows the loop.
Replay(t) ==
    LET tk == task[t]
        h == tk.hub
        w == tk.ws
    IN  IF HasNext(history[h], tk.idx)
        THEN /\ UNCHANGED active_connections
             /\ IF open[w]
                THEN /\ inbox' = [inbox EXCEPT ![w] = Append(@, history[h][tk.idx + 1])]
                     /\ replayed' = [replayed EXCEPT ![w] = Append(@, history[h][tk.idx + 1])]
                     /\ task' = [task EXCEPT ![t] = [tk EXCEPT !.pc = "replay", !.idx = @ + 1]]
                ELSE /\ \E e \in SendErrors :
                           task' = [task EXCEPT ![t] = Raised(tk, w, e)]
                     /\ UNCHANGED <<inbox, replayed>>
        ELSE /\ active_connections' = [active_connections EXCEPT ![h] = Append(@, w)]
             /\ task' = [task EXCEPT ![t] = Done(tk, "ok")]
             /\ UNCHANGED <<inbox, replayed>>

CallConnect(t, h, w) ==
    /\ running = 0
    /\ task[t].pc = "idle"
    /\ Accept(t, task[t], h, w)
    /\ UNCHANGED <<hubVars, open, inbox, logVars>>
    /\ UNCHANGED appVars
    /\ Schedule(t)
    /\ TrackOverlap

ConnectStep(t) ==
    /\ running = 0
    /\ task[t].pc \in {"accept", "replay"}
    /\ Replay(t)
    /\ UNCHANGED <<history, open, accepted, published, echoed>>
    /\ UNCHANGED appVars
    /\ Schedule(t)
    /\ TrackOverlap

\* ---------------------------------------------- ConnectionManager.disconnect
\* self.active_connections.remove(websocket): ValueError when it is absent.
Disconnect(conns, w) ==
    IF w \in Range(conns)
    THEN [out |-> "ok", conns |-> ListRemove(conns, w)]
    ELSE [out |-> "ValueError", conns |-> conns]

CallDisconnect(t, h, w) ==
    /\ running = 0
    /\ task[t].pc = "idle"
    /\ LET r == Disconnect(active_connections[h], w)
       IN  /\ active_connections' = [active_connections EXCEPT ![h] = r.conns]
           /\ task' = [task EXCEPT ![t] =
                   Done(Call(@, "disconnect", h, w, <<>>, active_connections[h]), r.out)]
    /\ UNCHANGED <<history, wsVars, logVars>>
    /\ UNCHANGED appVars
    /\ Schedule(t)
    /\ TrackOverlap

\* ----------------------------------- ConnectionManager.send_personal_message
SendPersonalViaHistory(t, tk, h, w, m) ==
    /\ w \in accepted
    /\ LET c == Call(tk, "send_personal_message", h, w, m, <<>>)
       IN  IF open[w]
           THEN /\ history' = [history EXCEPT ![h] = Append(@, m)]
                /\ inbox' = [inbox EXCEPT ![w] = Append(@, m)]
                /\ echoed' = Append(echoed, <<w, m>>)
                /\ task' = [task EXCEPT ![t] = [c EXCEPT !.pc = "sending"]]
           ELSE /\ \E e \in SendErrors :
                      task' = [task EXCEPT ![t] = Raised(c, w, e)]
                /\ UNCHANGED <<history, inbox, echoed>>

\* await websocket.send_text(message)
SendPersonal(t, tk, h, w, m) ==
    /\ w \in accepted
    /\ UNCHANGED history
    /\ LET c == Call(tk, "send_personal_message", h, w, m, <<>>)
       IN  IF open[w]
           THEN /\ inbox' = [inbox EXCEPT ![w] = Append(@, m)]
                /\ echoed' = Append(echoed, <<w, m>>)
                /\ task' = [task EXCEPT ![t] = [c EXCEPT !.pc = "sending"]]
           ELSE /\ \E e \in SendErrors :
                      task' = [task EXCEPT ![t] = Raised(c, w, e)]
                /\ UNCHANGED <<inbox, echoed>>

CallSendPersonal(t, h, w, m) ==
    /\ running = 0
    /\ task[t].pc = "idle"
    /\ Len(echoed) < MaxEcho
    /\ SendPersonal(t, task[t], h, w, m)
    /\ UNCHANGED <<active_connections, open, accepted, published, replayed>>
    /\ UNCHANGED appVars
    /\ Schedule(t)
    /\ TrackOverlap

\* Resumed after the send: send_personal_message returns.
SendPersonalStep(t) ==
    /\ running = 0
    /\ task[t].pc = "sending"
    /\ task[t].kind = "driver"
    /\ task' = [task EXCEPT ![t] = Done(@, "ok")]
    /\ UNCHANGED <<hubVars, wsVars, logVars>>
    /\ UNCHANGED appVars
    /\ Schedule(t)
    /\ TrackOverlap

\* ----------------------------------------------- ConnectionManager.broadcast
\* One turn of the loop over self.active_connections (conns), from the
\* iterator position in tk: append to history and send, or leave the loop.
Sweep(t, tk, conns) ==
    LET h == tk.hub
    IN  IF HasNext(conns, tk.idx)
        THEN LET c == conns[tk.idx + 1]
                 nx == [tk EXCEPT !.pc = "sweep", !.idx = @ + 1, !.tried = Append(@, c)]
             IN  /\ history' = [history EXCEPT ![h] = Append(@, tk.msg)]
                 /\ IF open[c]
                    THEN /\ inbox' = [inbox EXCEPT ![c] = Append(@, tk.msg)]
                         /\ task' = [task EXCEPT ![t] = nx]
                    ELSE /\ \E e \in SendErrors :
                               task' = [task EXCEPT ![t] = Raised(nx, c, e)]
                         /\ UNCHANGED inbox
        ELSE /\ task' = [task EXCEPT ![t] = Done(tk, "ok")]
             /\ UNCHANGED <<history, inbox>>

\* The call of broadcast(message) on hub h, up to its first await.
Broadcast(t, tk, h, m, conns) ==
    /\ published' = [published EXCEPT ![h] = Append(@, m)]
    /\ Sweep(t, Call(tk, "broadcast", h, 0, m, conns), conns)

CallBroadcast(t, h, m) ==
    /\ running = 0
    /\ task[t].pc = "idle"
    /\ Len(published[h]) < MaxPub
    /\ Broadcast(t, task[t], h, m, active_connections[h])
    /\ UNCHANGED <<active_connections, open, accepted, replayed, echoed>>
    /\ UNCHANGED appVars
    /\ Schedule(t)
    /\ TrackOverlap

BroadcastStep(t) ==
    /\ running = 0
    /\ task[t].pc = "sweep"
    /\ Sweep(t, task[t], active_connections[task[t].hub])
    /\ UNCHANGED <<active_connections, open, accepted, logVars>>
    /\ UNCHANGED appVars
    /\ Schedule(t)
    /\ TrackOverlap

\* ------------------------------------------------------------ environment
\* The calling coroutine takes the result of the call and suspends.
Return(t) ==
    /\ running = t
    /\ task[t].pc = "done"
    /\ task' = [task EXCEPT ![t] = IdleTask]
    /\ UNCHANGED <<hubVars, wsVars, logVars>>
    /\ UNCHANGED appVars
    /\ Schedule(t)
    /\ TrackOverlap

\* The peer closes the transport of an accepted websocket.
PeerClose(w) ==
    /\ running = 0
    /\ w \in accepted
    /\ open[w]
    /\ Cardinality({c \in WS : ~open[c]}) < MaxClose
    /\ open' = [open EXCEPT ![w] = FALSE]
    /\ UNCHANGED <<hubVars, accepted, inbox, task, running, appVars, logVars>>
    /\ TrackOverlap

\* ---------------------------------------------------------- specification
InitShared ==
    /\ active_connections = [h \in Hubs |-> <<>>]
    /\ history = [h \in Hubs |-> <<>>]
    /\ open = [w \in WS |-> TRUE]
    /\ accepted = {}
    /\ inbox = [w \in WS |-> <<>>]
    /\ running = 0
    /\ _status = <<>>
    /\ frames = 0
    /\ published = [h \in Hubs |-> <<>>]
    /\ replayed = [w \in WS |-> <<>>]
    /\ overlap = [w \in WS |-> {}]
    /\ echoed = <<>>

Init ==
    /\ InitShared
    /\ task = [t \in Tasks |-> IdleTask]

\* join, publish and leave.
HubStep(t) ==
    \/ \E h \in DriverHubs, w \in WS : CallConnect(t, h, w)
    \/ ConnectStep(t)
    \/ \E h \in DriverHubs, w \in WS : CallDisconnect(t, h, w)
    \/ \E h \in DriverHubs, m \in BroadcastTexts : CallBroadcast(t, h, m)
    \/ BroadcastStep(t)
    \/ Return(t)

TaskStep(t) ==
    \/ HubStep(t)
    \/ \E h \in DriverHubs, w \in WS, m \in EchoTexts : CallSendPersonal(t, h, w, m)
    \/ SendPersonalStep(t)

Next ==
    \/ \E t \in Tasks : TaskStep(t)
    \/ \E w \in WS : PeerClose(w)

Spec == Init /\ [][Next]_vars

\* Joins, publishes and leaves only; every call runs to completion before
\* the next starts, and no transport fails.
Quiet(t) == \A u \in Tasks \ {t} : task[u].pc = "idle"

NextSeq == \E t \in Tasks : Quiet(t) /\ HubStep(t)

SpecSeq == Init /\ [][NextSeq]_vars

\* ------------------------------------------------------- FollowingStatus
\* self._status[client_id] = value (lines 47 and 55).
DictSet(d, k, v) == [x \in DOMAIN d \cup {k} |-> IF x = k THEN v ELSE d[x]]

\* del self._status[client_id] (line 51), for a key that is present.
DictDel(d, k) == [x \in DOMAIN d \ {k} |-> d[x]]

RECURSIVE SumOver(_, _)
SumOver(d, keys) ==
    IF keys = {} THEN 0
    ELSE LET k == CHOOSE x \in keys : TRUE IN d[k] + SumOver(d, keys \ {k})

RECURSIVE Gcd(_, _)
Gcd(a, b) == IF b = 0 THEN a ELSE Gcd(b, a % b)

\* sum(values) / len(values), for a non-empty d: the quotient in lowest terms.
Mean(d) ==
    LET n == Cardinality(DOMAIN d)
        total == SumOver(d, DOMAIN d)
        g == Gcd(IF total < 0 THEN -total ELSE total, n)
    IN  <<total \div g, n \div g>>

\* f"{average:.1f}" (line 101): the quotient q = <<num, den>> rounded to one
\* decimal, ties to even, as the number of tenths (35 stands for "3.5").
Fmt1f(q) ==
    LET whole == (10 * q[1]) \div q[2]
        rest == (10 * q[1]) % q[2]
    IN  IF 2 * rest < q[2] THEN whole
        ELSE IF 2 * rest > q[2] THEN whole + 1
        ELSE IF whole % 2 = 0 THEN whole ELSE whole + 1

\* statistics.median_grouped(values) with interval 1, floored: with x the
\* value at the midpoint of the sorted values, cf the number of values below
\* x and f the number equal to x, floor(x - 1/2 + (n/2 - cf)/f).
MedianGroupedFloor(d) ==
    LET n == Cardinality(DOMAIN d)
        Below(v) == Cardinality({k \in DOMAIN d : d[k] < v})
        Same(v) == Cardinality({k \in DOMAIN d : d[k] = v})
        x == CHOOSE v \in Range(d) : Below(v) <= n \div 2 /\ n \div 2 < Below(v) + Same(v)
    IN  IF n = 1 THEN x
        ELSE ((2 * x - 1) * Same(x) + n - 2 * Below(x)) \div (2 * Same(x))

\* FollowingStatus.json (lines 66-72), for a non-empty d.
Json(d) == <<"{detail: ", d, ", mean: ", Mean(d), ", median: ", MedianGroupedFloor(d), "}">>

\* async def add_client (lines 45-47): no await inside, the entry is set to 0.
AddClientKeepsScore(d, client_id) ==
    IF client_id \in DOMAIN d THEN d ELSE DictSet(d, client_id, 0)
AddClient(d, client_id) == DictSet(d, client_id, 0)

\* async def remove_client (lines 49-51): del raises KeyError when the key
\* is absent and leaves the dict as it was.
RemoveClient(d, client_id) ==
    IF client_id \in DOMAIN d
    THEN [out |-> "ok", d |-> DictDel(d, client_id)]
    ELSE [out |-> "KeyError", d |-> d]

\* async def update_value (lines 53-56), up to the first await of its
\* broadcast: the assignment creates the entry when it is absent.
UpdateValue(t, tk, client_id, value) ==
    /\ _status' = DictSet(_status, client_id, value)
    /\ Broadcast(t, [tk EXCEPT !.site = "update_value", !.cid = client_id],
                 "FOLLOWING_STATUS", Json(_status'), active_connections["FOLLOWING_STATUS"])

\* ------------------------------------------- the ledger, called directly
\* The client ids and scores of the ledgers the calls start from, and the
\* number of calls made on one of them.
LedgerIds == {"a", "b", "c", "d"}
Scores == 0..MaxScore
LedgerTasks == {1}

Ledgers == UNION {[ids -> Scores] : ids \in SUBSET LedgerIds}

CallAddClient(t, client_id) ==
    /\ running = 0
    /\ task[t].pc = "idle"
    /\ frames < MaxCalls
    /\ frames' = frames + 1
    /\ _status' = AddClient(_status, client_id)
    /\ task' = [task EXCEPT ![t] =
            Done([Call(@, "add_client", "FOLLOWING_STATUS", 0, <<>>, _status)
                    EXCEPT !.site = "add_client", !.cid = client_id], "ok")]
    /\ UNCHANGED <<hubVars, wsVars, logVars>>
    /\ Schedule(t)
    /\ TrackOverlap

CallRemoveClient(t, client_id) ==
    /\ running = 0
    /\ task[t].pc = "idle"
    /\ frames < MaxCalls
    /\ frames' = frames + 1
    /\ LET r == RemoveClient(_status, client_id)
       IN  /\ _status' = r.d
           /\ task' = [task EXCEPT ![t] =
                   Done([Call(@, "remove_client", "FOLLOWING_STATUS", 0, <<>>, _status)
                           EXCEPT !.site = "remove_client", !.cid = client_id], r.out)]
    /\ UNCHANGED <<hubVars, wsVars, logVars>>
    /\ Schedule(t)
    /\ TrackOverlap

CallUpdateValue(t, client_id, value) ==
    /\ running = 0
    /\ task[t].pc = "idle"
    /\ frames < MaxCalls
    /\ frames' = frames + 1
    /\ UpdateValue(t, task[t], client_id, value)
    /\ UNCHANGED <<active_connections, open, accepted, replayed, echoed>>
    /\ Schedule(t)
    /\ TrackOverlap

\* The ledger holds any entries, and the status hub has no monitor or one.
InitLedger ==
    /\ history = [h \in Hubs |-> <<>>]
    /\ open = [w \in WS |-> TRUE]
    /\ inbox = [w \in WS |-> <<>>]
    /\ running = 0
    /\ frames = 0
    /\ published = [h \in Hubs |-> <<>>]
    /\ replayed = [w \in WS |-> <<>>]
    /\ overlap = [w \in WS |-> {}]
    /\ echoed = <<>>
    /\ task = [t \in Tasks |-> IdleTask]
    /\ _status \in Ledgers
    /\ \E mons \in {<<>>, <<1>>} :
           /\ active_connections = [h \in Hubs |-> IF h = "FOLLOWING_STATUS" THEN mons ELSE <<>>]
           /\ accepted = Range(mons)

NextLedger ==
    \E t \in LedgerTasks :
        \/ \E c \in LedgerIds : CallAddClient(t, c)
        \/ \E c \in LedgerIds : CallRemoveClient(t, c)
        \/ \E c \in LedgerIds, v \in Scores : CallUpdateValue(t, c, v)
        \/ BroadcastStep(t)
        \/ Return(t)

SpecLedger == InitLedger /\ [][NextLedger]_vars

\* ---------------------------------------------------------- the endpoints
\* The handler's coroutine ends with an exception nobody caught.
Dead(tk, exc) == [tk EXCEPT !.pc = "dead", !.out = exc]

\* A new connection reaches /ws/{client_id}: line 92 up to accept().
OpenChat(w, client_id) ==
    /\ running = 0
    /\ task[w].pc = "start"
    /\ Accept(w, [task[w] EXCEPT !.kind = "chat", !.cid = client_id, !.site = "connect"],
              "CLIENTS", w)
    /\ UNCHANGED <<hubVars, open, inbox, logVars, appVars>>
    /\ Schedule(w)
    /\ TrackOverlap

\* A new connection reaches /mon/ws/: line 114 up to accept().
OpenMonitor(w) ==
    /\ running = 0
    /\ task[w].pc = "start"
    /\ Accept(w, [task[w] EXCEPT !.kind = "monitor", !.site = "connect"],
              "FOLLOWING_STATUS", w)
    /\ UNCHANGED <<hubVars, open, inbox, logVars, appVars>>
    /\ Schedule(w)
    /\ TrackOverlap

\* connect() has returned or raised (lines 92-96 and 114-118): add_client
\* for a chat client, then the first receive_text(); an exception of
\* connect() is outside the try and ends the handler.
AfterConnect(w) ==
    LET tk == task[w]
    IN  /\ running = w
        /\ tk.pc = "done" /\ tk.op = "connect" /\ tk.kind # "driver"
        /\ IF tk.out = "ok"
           THEN /\ task' = [task EXCEPT ![w] = [tk EXCEPT !.pc = "recv"]]
                /\ _status' = IF tk.kind = "chat" THEN AddClient(_status, tk.cid) ELSE _status
           ELSE /\ task' = [task EXCEPT ![w] = Dead(tk, tk.out)]
                /\ UNCHANGED _status
        /\ UNCHANGED <<hubVars, wsVars, logVars, frames>>
        /\ Schedule(w)
        /\ TrackOverlap

\* receive_text() hands a frame to the chat handler (lines 96-97): the echo.
RecvChat(w, data) ==
    /\ running = 0
    /\ task[w].pc = "recv" /\ task[w].kind = "chat"
    /\ frames < MaxFrames
    /\ frames' = frames + 1
    /\ SendPersonal(w, [task[w] EXCEPT !.data = data, !.site = "echo"], "CLIENTS", w,
                    YouWrote(data))
    /\ UNCHANGED <<active_connections, open, accepted, published, replayed, _status>>
    /\ Schedule(w)
    /\ TrackOverlap

\* receive_text() hands a frame to the monitor handler (lines 118-119).
RecvMonitorPublishes(w, data) ==
    /\ running = 0
    /\ task[w].pc = "recv" /\ task[w].kind = "monitor"
    /\ frames < MaxFrames
    /\ frames' = frames + 1
    /\ Broadcast(w, [task[w] EXCEPT !.data = data, !.site = "says"], "CLIENTS",
                 Says("monitor", data), active_connections["CLIENTS"])
    /\ UNCHANGED <<active_connections, open, accepted, replayed, echoed, _status>>
    /\ Schedule(w)
    /\ TrackOverlap

RecvMonitor(w, data) ==
    /\ running = 0
    /\ task[w].pc = "recv" /\ task[w].kind = "monitor"
    /\ frames < MaxFrames
    /\ frames' = frames + 1
    /\ task' = [task EXCEPT ![w] = [@ EXCEPT !.data = data]]
    /\ UNCHANGED <<hubVars, wsVars, logVars, _status>>
    /\ Schedule(w)
    /\ TrackOverlap

\* Resumed after the echo (lines 98-103): int(data) parses and update_value
\* runs up to its first await, or ValueError and the plain broadcast.
AfterEchoScoresZero(w) ==
    LET tk == task[w]
    IN  /\ running = 0
        /\ tk.pc = "sending" /\ tk.kind = "chat"
        /\ UpdateValue(w, tk, tk.cid, IF IsInt(tk.data) THEN IntOf(tk.data) ELSE 0)
        /\ UNCHANGED <<active_connections, open, accepted, replayed, echoed, frames>>
        /\ Schedule(w)
        /\ TrackOverlap

AfterEcho(w) ==
    LET tk == task[w]
    IN  /\ running = 0
        /\ tk.pc = "sending" /\ tk.kind = "chat"
        /\ IF IsInt(tk.data)
           THEN UpdateValue(w, tk, tk.cid, IntOf(tk.data))
           ELSE /\ UNCHANGED _status
                /\ Broadcast(w, [tk EXCEPT !.site = "says"], "CLIENTS",
                             Says(tk.cid, tk.data), active_connections["CLIENTS"])
        /\ UNCHANGED <<active_connections, open, accepted, replayed, echoed, frames>>
        /\ Schedule(w)
        /\ TrackOverlap

\* update_value has returned (line 100): client_status(client_id), KeyError
\* when the entry is gone, and the "adjusted" broadcast.
AfterUpdateValue(w) ==
    LET tk == task[w]
    IN  /\ running = w
        /\ tk.pc = "done" /\ tk.site = "update_value" /\ tk.out = "ok"
        /\ IF tk.cid \in DOMAIN _status
           THEN Broadcast(w, [tk EXCEPT !.site = "adjusted"], "CLIENTS",
                          Adjusted(tk.cid, _status[tk.cid]), active_connections["CLIENTS"])
           ELSE /\ task' = [task EXCEPT ![w] = Dead(tk, "KeyError")]
                /\ UNCHANGED <<history, inbox, published>>
        /\ UNCHANGED <<active_connections, open, accepted, replayed, echoed, appVars>>
        /\ Schedule(w)
        /\ TrackOverlap

\* The "adjusted" broadcast has returned (line 101): average,
\* ZeroDivisionError when _status is empty, and the "Following Value"
\* broadcast.
AfterAdjusted(w) ==
    LET tk == task[w]
    IN  /\ running = w
        /\ tk.pc = "done" /\ tk.site = "adjusted" /\ tk.out = "ok"
        /\ IF DOMAIN _status # {}
           THEN Broadcast(w, [tk EXCEPT !.site = "following"], "CLIENTS",
                          FollowingValue(Fmt1f(Mean(_status))), active_connections["CLIENTS"])
           ELSE /\ task' = [task EXCEPT ![w] = Dead(tk, "ZeroDivisionError")]
                /\ UNCHANGED <<history, inbox, published>>
        /\ UNCHANGED <<active_connections, open, accepted, replayed, echoed, appVars>>
        /\ Schedule(w)
        /\ TrackOverlap

\* The last broadcast of the loop body has returned: back to receive_text().
LoopAgain(w) ==
    LET tk == task[w]
    IN  /\ running = w
        /\ tk.pc = "done" /\ tk.site \in {"following", "says"} /\ tk.out = "ok"
        /\ task' = [task EXCEPT ![w] = [tk EXCEPT !.pc = "recv"]]
        /\ UNCHANGED <<hubVars, wsVars, logVars, appVars>>
        /\ Schedule(w)
        /\ TrackOverlap

\* except WebSocketDisconnect (lines 104-106): disconnect(websocket), which
\* raises ValueError out of the handler when it is absent, then the "left
\* the chat" broadcast up to its first await.
Teardown(w, tk) ==
    LET r == Disconnect(active_connections["CLIENTS"], w)
    IN  /\ active_connections' = [active_connections EXCEPT !["CLIENTS"] = r.conns]
        /\ IF r.out = "ok"
           THEN Broadcast(w, [tk EXCEPT !.site = "left"], "CLIENTS", Left(tk.cid), r.conns)
           ELSE /\ task' = [task EXCEPT ![w] = Dead(tk, r.out)]
                /\ UNCHANGED <<history, inbox, published>>

\* receive_text() raises WebSocketDisconnect in the chat handler.
RecvDisconnectChat(w) ==
    /\ running = 0
    /\ task[w].pc = "recv" /\ task[w].kind = "chat"
    /\ ~open[w]
    /\ Teardown(w, task[w])
    /\ UNCHANGED <<open, accepted, replayed, echoed, appVars>>
    /\ Schedule(w)
    /\ TrackOverlap

\* A send inside the try body raised WebSocketDisconnect: the same except
\* clause runs in the handler that was sending.
CatchDisconnect(w) ==
    LET tk == task[w]
    IN  /\ running = w
        /\ tk.pc = "done" /\ tk.out = "WebSocketDisconnect"
        /\ tk.site \in {"echo", "update_value", "adjusted", "following", "says"}
        /\ Teardown(w, tk)
        /\ UNCHANGED <<open, accepted, replayed, echoed, appVars>>
        /\ Schedule(w)
        /\ TrackOverlap

\* Any other exception of the try body, and any exception of the "left the
\* chat" broadcast, leaves the handler uncaught.
Uncaught(w) ==
    LET tk == task[w]
    IN  /\ running = w
        /\ tk.pc = "done" /\ tk.out # "ok"
        /\ \/ tk.site \in {"echo", "update_value", "adjusted", "following", "says"}
              /\ tk.out # "WebSocketDisconnect"
           \/ tk.site = "left"
        /\ task' = [task EXCEPT ![w] = Dead(tk, tk.out)]
        /\ UNCHANGED <<hubVars, wsVars, logVars, appVars>>
        /\ Schedule(w)
        /\ TrackOverlap

\* The "left the chat" broadcast has returned (line 107): remove_client,
\* KeyError when the entry is gone.
AfterLeft(w) ==
    LET tk == task[w]
    IN  /\ running = w
        /\ tk.pc = "done" /\ tk.site = "left" /\ tk.out = "ok"
        /\ LET r == RemoveClient(_status, tk.cid)
           IN  /\ _status' = r.d
               /\ task' = [task EXCEPT ![w] =
                       IF r.out = "ok" THEN [tk EXCEPT !.pc = "closed"] ELSE Dead(tk, r.out)]
        /\ UNCHANGED <<hubVars, wsVars, logVars, frames>>
        /\ Schedule(w)
        /\ TrackOverlap

\* receive_text() raises WebSocketDisconnect in the monitor handler (lines
\* 120-121): disconnect(websocket) returns None or raises ValueError, and
\* awaiting None raises TypeError.
RecvDisconnectMonitor(w) ==
    LET r == Disconnect(active_connections["FOLLOWING_STATUS"], w)
        c == Call(task[w], "disconnect", "FOLLOWING_STATUS", w, <<>>,
                  active_connections["FOLLOWING_STATUS"])
    IN  /\ running = 0
        /\ task[w].pc = "recv" /\ task[w].kind = "monitor"
        /\ ~open[w]
        /\ active_connections' = [active_connections EXCEPT !["FOLLOWING_STATUS"] = r.conns]
        /\ task' = [task EXCEPT ![w] =
                Dead([c EXCEPT !.site = "mon_disconnect"],
                     IF r.out = "ok" THEN "TypeError" ELSE r.out)]
        /\ UNCHANGED <<history, wsVars, logVars, appVars>>
        /\ Schedule(w)
        /\ TrackOverlap

HandlerStart == [IdleTask EXCEPT !.pc = "start", !.kind = "none"]

InitApp ==
    /\ InitShared
    /\ task = [w \in WS |-> HandlerStart]

HandlerStep(w) ==
    \/ \E c \in ClientIds : OpenChat(w, c)
    \/ OpenMonitor(w)
    \/ ConnectStep(w)
    \/ AfterConnect(w)
    \/ \E d \in Data : RecvChat(w, d)
    \/ \E d \in Data : RecvMonitor(w, d)
    \/ AfterEcho(w)
    \/ BroadcastStep(w)
    \/ AfterUpdateValue(w)
    \/ AfterAdjusted(w)
    \/ LoopAgain(w)
    \/ RecvDisconnectChat(w)
    \/ CatchDisconnect(w)
    \/ Uncaught(w)
    \/ AfterLeft(w)
    \/ RecvDisconnectMonitor(w)

NextApp ==
    \/ \E w \in WS : HandlerStep(w)
    \/ \E w \in WS : PeerClose(w)

SpecApp == InitApp /\ [][NextApp]_vars

\* ------------------------------------------- two transports have closed
\* The websockets of the runs that start with chat handlers already
\* connected.
LeaveWS == 1..NumLeaveWS

\* The registries they can have built: every order of two or more of them.
Registries ==
    {s \in UNION {[1..n -> LeaveWS] : n \in 2..NumLeaveWS} :
        \A i, j \in DOMAIN s : i # j => s[i] # s[j]}

\* The chat handler of websocket w, opened as /ws/{client_id}, after
\* connect() and add_client() (lines 92-93), suspended in receive_text().
Listening(w, client_id) ==
    [Done(Call([HandlerStart EXCEPT !.kind = "chat", !.cid = client_id, !.site = "connect"],
               "connect", "CLIENTS", w, <<>>, <<>>), "ok") EXCEPT !.pc = "recv"]

\* Some chat clients are connected, nothing has been said yet, and the
\* transports of two of them have just closed.
InitLeave ==
    /\ history = [h \in Hubs |-> <<>>]
    /\ inbox = [w \in LeaveWS |-> <<>>]
    /\ running = 0
    /\ frames = 0
    /\ published = [h \in Hubs |-> <<>>]
    /\ replayed = [w \in LeaveWS |-> <<>>]
    /\ overlap = [w \in LeaveWS |-> {}]
    /\ echoed = <<>>
    /\ \E reg \in Registries :
           /\ active_connections = [h \in Hubs |-> IF h = "CLIENTS" THEN reg ELSE <<>>]
           /\ accepted = Range(reg)
           /\ \E ids \in [Range(reg) -> ClientIds] :
                  /\ task = [w \in LeaveWS |->
                                IF w \in Range(reg) THEN Listening(w, ids[w]) ELSE HandlerStart]
                  /\ _status = [c \in Range(ids) |-> 0]
           /\ \E gone \in SUBSET Range(reg) :
                  /\ Cardinality(gone) = 2
                  /\ open = [w \in LeaveWS |-> w \notin gone]

\* The except clause of each handler whose transport closed (lines 104-107).
NextLeave ==
    \E w \in LeaveWS :
        \/ RecvDisconnectChat(w)
        \/ BroadcastStep(w)
        \/ Uncaught(w)
        \/ AfterLeft(w)

SpecLeave == InitLeave /\ [][NextLeave]_vars

\* ------------------------------------------------------------------ claims
Registered(h) == Range(active_connections[h])

AllOpen == \A w \in WS : open[w]

Finished(t, op) == task[t].pc = "done" /\ task[t].op = op

\* C1: when calls do not overlap and no transport fails, a broadcast that
\* has returned has sent its message exactly once to every websocket that
\* is registered at that moment.
C1_PublishSendsOnceToEachRegistered ==
    \A t \in DOMAIN task :
        Finished(t, "broadcast") /\ task[t].out = "ok" =>
            \A w \in Registered(task[t].hub) : Count(w, task[t].tried) = 1

C1_Witness ==
    \E t \in DOMAIN task :
        /\ Finished(t, "broadcast") /\ task[t].out = "ok"
        /\ Cardinality(Registered(task[t].hub)) = 2
        /\ Len(task[t].tried) = 2
        /\ \A w \in Registered(task[t].hub) : inbox[w] # <<>>

\* C2: a websocket that joins after N broadcast calls have completed is
\* replayed exactly the N broadcast messages, in call order, each once.
C2_ReplayIsThePublishedSequence ==
    \A t \in DOMAIN task :
        Finished(t, "connect") /\ task[t].out = "ok" =>
            replayed[task[t].ws] = published[task[t].hub]

\* C3: in every state the history is the sequence of messages passed to
\* broadcast so far, one entry per call, in call order.
C3_HistoryIsThePublishedSequence ==
    \A h \in Hubs : history[h] = published[h]

\* C4: a broadcast that returns has sent its message exactly once to every
\* websocket that was registered when it was called and still is when it
\* returns, whatever disconnects ran while the sweep was suspended.
C4_SweepCoversCallTimeSnapshot ==
    \A t \in DOMAIN task :
        Finished(t, "broadcast") /\ task[t].out = "ok" /\ AllOpen =>
            \A w \in Range(task[t].snap) \cap Registered(task[t].hub) :
                Count(w, task[t].tried) = 1

\* C5: a websocket whose join overlapped a broadcast in mid-sweep has, once
\* both have completed, received that broadcast's message exactly once,
\* replay and live sweep counted together.
C5_JoinerGetsOverlappingPublishOnce ==
    \A w \in WS : \A m \in overlap[w] :
        ( /\ AllOpen
          /\ \E h \in Hubs : w \in Registered(h) /\ Count(m, published[h]) = 1
          /\ \A t \in DOMAIN task : task[t].pc = "sweep" => task[t].msg # m )
        => Count(m, inbox[w]) = 1

\* C6: a broadcast whose send to one websocket failed has still attempted
\* a send to every other websocket registered for the whole of the sweep.
C6_SweepContinuesPastFailure ==
    \A t \in DOMAIN task :
        Finished(t, "broadcast") /\ task[t].failed # 0 =>
            \A w \in Range(task[t].snap) \cap Registered(task[t].hub) :
                w \in Range(task[t].tried)

\* Once a handler that observed a failed send has run on to its next await
\* (or has ended), the websocket whose send failed is registered nowhere.
C7_FailedSendRemoved ==
    \A t \in DOMAIN task :
        running = 0 /\ task[t].sawFail # 0 =>
            \A h \in Hubs : task[t].sawFail \notin Registered(h)

\* A chat handler is in its disconnect teardown only if its own transport
\* is closed.
C7_TeardownOnlyOfClosed ==
    \A t \in DOMAIN task : task[t].site = "left" => ~open[t]

\* C7: a failed send is an implicit disconnect of the websocket it failed
\* on: once the handler that observed it has run on to its next await (or
\* has ended) that websocket is no longer registered, and the handler that
\* issued the broadcast does not tear down its own open websocket.
C7_FailedSendDisconnectsFailingChannel == C7_FailedSendRemoved /\ C7_TeardownOnlyOfClosed

\* C8: disconnect of a websocket that is not registered raises nothing and
\* leaves the registry as it was.
C8_LeaveOfAbsentIsSilent ==
    \A t \in DOMAIN task :
        Finished(t, "disconnect") /\ task[t].ws \notin Range(task[t].snap) =>
            /\ task[t].out = "ok"
            /\ active_connections[task[t].hub] = task[t].snap

\* C9: a connect whose replay hit a failed send has still registered the
\* websocket.
C9_JoinSurvivesReplayFailure ==
    \A t \in DOMAIN task :
        Finished(t, "connect") /\ task[t].failed # 0 =>
            task[t].ws \in Registered(task[t].hub)

\* No history and no replay holds an echo text, and a websocket holds
\* exactly the echo texts addressed to it.
C10_EchoState ==
    /\ \A h \in Hubs : Range(history[h]) \cap EchoTexts = {}
    /\ \A w \in WS : \A m \in EchoTexts : Count(m, inbox[w]) = Count(<<w, m>>, echoed)
    /\ \A w \in WS : Range(replayed[w]) \cap EchoTexts = {}

\* The step that makes a send_personal_message call writes to the target
\* websocket only and leaves history and registry as they were.
C10_EchoStep ==
    \A t \in DOMAIN task :
        ( /\ task[t].pc \in {"idle", "recv"}
          /\ task'[t].pc \in {"sending", "done"}
          /\ task'[t].op = "send_personal_message" ) =>
            /\ history' = history
            /\ active_connections' = active_connections
            /\ \A w \in WS \ {task'[t].ws} : inbox'[w] = inbox[w]
            /\ inbox'[task'[t].ws] =
                   IF task'[t].pc = "sending"
                   THEN Append(inbox[task'[t].ws], task'[t].msg)
                   ELSE inbox[task'[t].ws]

\* C10: a personal message is written to its target websocket only and
\* changes neither history nor registry; so no echo text is ever replayed
\* to a later joiner or delivered to another websocket.
C10_EchoBypassesHistory == [][C10_EchoStep]_vars /\ []C10_EchoState

C10_Witness ==
    \E t \in DOMAIN task, w \in WS :
        /\ Finished(t, "connect") /\ task[t].out = "ok"
        /\ w # task[t].ws
        /\ replayed[task[t].ws] # <<>>
        /\ \E m \in EchoTexts : Count(m, inbox[w]) = 1

StatusHub == "FOLLOWING_STATUS"

\* The step of coroutine t that calls the ledger method op.
Calls(t, op) == task[t].pc = "idle" /\ task'[t].site = op

\* C11: update_value on a client id that has no entry fails with a
\* not-found error, leaves the ledger as it was and publishes no aggregate.
C11_UpdateOfAbsentFails ==
    [][\A t \in Tasks :
          Calls(t, "update_value") /\ task'[t].cid \notin DOMAIN _status
          => /\ task'[t].pc = "done" /\ task'[t].out = "KeyError"
             /\ _status' = _status
             /\ published' = published
             /\ history' = history /\ inbox' = inbox]_vars

\* The k-th smallest of the scores of ledger d (k from 1).
OrderStat(d, k) ==
    CHOOSE v \in Range(d) :
        /\ Cardinality({c \in DOMAIN d : d[c] < v}) < k
        /\ k <= Cardinality({c \in DOMAIN d : d[c] <= v})

LoMid(d) == OrderStat(d, (Cardinality(DOMAIN d) + 1) \div 2)
HiMid(d) == OrderStat(d, Cardinality(DOMAIN d) \div 2 + 1)

\* C15: the median of every published aggregate lies between the two
\* central scores of the ledger it was computed from (which are the one
\* middle score when the count is odd).
C15_MedianBetweenCentralScores ==
    \A i \in DOMAIN published[StatusHub] :
        LET m == published[StatusHub][i]
        IN  LoMid(m[2]) <= m[6] /\ m[6] <= HiMid(m[2])

\* C20: add_client(client_id) returns with client_id mapped to 0 whether
\* or not it was present, leaves every other entry as it was and
\* publishes nothing.
C20_AddClientResetsToZero ==
    [][\A t \in Tasks :
          Calls(t, "add_client")
          => LET c == task'[t].cid
             IN  /\ task'[t].pc = "done" /\ task'[t].out = "ok"
                 /\ DOMAIN _status' = DOMAIN _status \cup {c}
                 /\ _status'[c] = 0
                 /\ \A k \in DOMAIN _status \ {c} : _status'[k] = _status[k]
                 /\ published' = published
                 /\ history' = history /\ inbox' = inbox]_vars

C20_Witness ==
    \E t \in Tasks :
        /\ Finished(t, "add_client")
        /\ task[t].cid \in DOMAIN task[t].snap
        /\ task[t].snap[task[t].cid] > 0
        /\ _status[task[t].cid] = 0
        /\ \E k \in DOMAIN _status : _status[k] > 0

\* The chat websockets opened under client_id that are registered.
RegisteredAs(client_id) ==
    {w \in Registered("CLIENTS") : task[w].kind = "chat" /\ task[w].cid = client_id}

\* C12: whenever every handler is suspended, a client id has a ledger
\* entry if and only if some websocket opened under it is registered in
\* the chat hub.
C12_LedgerMatchesRegistry ==
    running = 0 =>
        \A c \in ClientIds : c \in DOMAIN _status <=> RegisteredAs(c) # {}

\* Handler w is about to evaluate the expression of the given site: the
\* call before it has just returned.
AboutToRead(w, site) ==
    running = w /\ task[w].pc = "done" /\ task[w].site = site /\ task[w].out = "ok"

\* C13: no aggregate is built over an empty ledger: every aggregate that
\* update_value published has entries, client_status(client_id) is read
\* only while the client's entry is present and average only while the
\* ledger is not empty.
C13_NoAggregateOverEmptyLedger ==
    /\ \A i \in DOMAIN published[StatusHub] : DOMAIN published[StatusHub][i][2] # {}
    /\ \A w \in DOMAIN task :
          /\ AboutToRead(w, "update_value") => task[w].cid \in DOMAIN _status
          /\ AboutToRead(w, "adjusted") => DOMAIN _status # {}

\* C19: a monitor handler whose transport closed has removed its websocket
\* from the status hub's registry and has ended without an exception.
C19_MonitorTeardownEndsNormally ==
    \A w \in DOMAIN task :
        task[w].kind = "monitor" /\ task[w].site = "mon_disconnect"
        => /\ w \notin Registered(StatusHub)
           /\ task[w].pc = "closed"
           /\ task[w].out \in {"ok", "none"}

\* The list s without the item x, the others in their order.
Without(s, x) == SelectSeq(s, LAMBDA c : c # x)

\* A step changes the registry of a hub only when a chat handler enters its
\* disconnect teardown, and then by taking out exactly that handler's
\* websocket.
C16_Step ==
    \A h \in Hubs :
        \/ active_connections'[h] = active_connections[h]
        \/ /\ h = "CLIENTS"
           /\ \E w \in Registered(h) :
                 /\ task[w].pc = "recv" /\ task'[w].site = "left"
                 /\ active_connections'[h] = Without(active_connections[h], w)

\* Exactly the websockets whose handler has not entered the teardown are
\* registered.
C16_State ==
    \A w \in accepted : w \in Registered("CLIENTS") <=> task[w].pc = "recv"

\* C16: however the disconnect teardowns of two websockets interleave,
\* each takes exactly its own websocket out of the registry and keeps the
\* order of the others, so the registry ends as the initial one without
\* those two.
C16_ConcurrentLeavesKeepRegistry == [][C16_Step]_vars /\ []C16_State

C16_Witness ==
    \E a, b \in accepted :
        /\ a # b
        /\ task[a].site = "left" /\ task[a].pc = "sweep"
        /\ task[b].site = "left" /\ task[b].pc = "sweep"
        /\ Len(active_connections["CLIENTS"]) = 2

\* C17: the not-found error of remove_client on a client id that has no
\* entry is swallowed by the disconnect teardown: no handler ends its
\* teardown with that error, also when two websockets opened under the
\* same client id both disconnect.
C17_TeardownSwallowsNotFound ==
    \A w \in DOMAIN task :
        task[w].site = "left" /\ task[w].pc = "dead" => task[w].out # "KeyError"

\* Chat handler w holds a frame whose payload int() rejects.
NonNumeric(tk) == tk.kind = "chat" /\ tk.data \in Data /\ ~IsInt(tk.data)

\* The steps handler w takes for such a frame: reading it and sending the
\* echo changes neither ledger nor status hub and publishes nothing; the
\* step after the echo publishes the one "says" message on the chat hub
\* and nothing else; the rest of the loop body publishes nothing more.
C14_Step ==
    \A w \in DOMAIN task :
        LET quiet == /\ _status' = _status
                     /\ history'[StatusHub] = history[StatusHub]
                     /\ published'[StatusHub] = published[StatusHub]
        IN  /\ task[w].pc = "recv" /\ task'[w].site = "echo" /\ NonNumeric(task'[w])
                   /\ frames' = frames + 1
               => quiet /\ published' = published
            /\ task[w].site = "echo" /\ task[w].pc = "sending" /\ NonNumeric(task[w])
                   /\ task'[w] # task[w]
               => quiet /\ published'["CLIENTS"] =
                              Append(published["CLIENTS"], Says(task[w].cid, task[w].data))
            /\ task[w].site = "says" /\ task[w].pc # "recv" /\ NonNumeric(task[w])
                   /\ task'[w] # task[w] /\ task'[w].site = "says"
               => quiet /\ published' = published

\* Every frame with such a payload that a handler has taken in has had its
\* "says" message published, once the handler is past the echo.
C14_Published ==
    running = 0 =>
        \A w \in DOMAIN task :
            NonNumeric(task[w]) /\ ~(task[w].site = "echo" /\ task[w].pc = "sending")
            => Says(task[w].cid, task[w].data) \in Range(published["CLIENTS"])

MonitorReads(w) ==
    /\ task[w].kind = "monitor" /\ task[w].pc = "recv"
    /\ frames' = frames + 1
    /\ \A u \in DOMAIN task \ {w} : task'[u] = task[u]
    /\ task'[w].kind = "monitor"

\* C18: a frame read from a monitor websocket is discarded, whatever its
\* payload: the step changes neither the ledger nor the registry or
\* history of either hub, sends nothing to any websocket, and the handler
\* goes back to reading.
C18_MonitorFrameDiscarded ==
    [][\A w \in DOMAIN task :
          MonitorReads(w)
          => /\ _status' = _status
             /\ active_connections' = active_connections
             /\ history' = history
             /\ inbox' = inbox
             /\ published' = published /\ echoed' = echoed
             /\ task'[w].pc = "recv"]_vars

C18_Witness ==
    \E w \in DOMAIN task :
        /\ task[w].kind = "monitor" /\ task[w].pc = "recv" /\ task[w].data \in Data
        /\ frames > 0
        /\ Registered("CLIENTS") # {}
====
